---- MODULE Spec2Model ----
(***************************************************************************)
(* Model of the agreement / evaluation pipeline of Nutrition_Label_Dashboard *)
(* (src/pipeline/kappa_calculator.py, src/pipeline/model_evaluator.py).      *)
(*                                                                           *)
(* The state is one batch run: the ordered list of reviewer files handed to  *)
(* KappaCalculator.calculate_agreement and ModelEvaluator.evaluate_model,    *)
(* and the result (or the exception) each of the two calls produced.  The    *)
(* variable call holds a direct call of one of the other operations of the   *)
(* two classes: its argument and, once it has returned, its outcome.         *)
(*                                                                           *)
(* Numbers.  Every score the code stores is round(x, 4); the model keeps     *)
(* such a number as the integer x * Scale.  None, NaN and numbers are the    *)
(* three kinds of score value.  A rational is rounded half-to-even; within   *)
(* the bounds no exact tie occurs, so the float rounding of the code and     *)
(* the rational rounding of the model agree.                                 *)
(***************************************************************************)
EXTENDS Integers, Sequences, FiniteSets, TLC

VARIABLES files, agreement, evaluation, call

vars == <<files, agreement, evaluation, call>>

(***************************************************************************)
(* Bounds of the inputs.                                                     *)
(***************************************************************************)
MaxFiles == 3

\* The number of source documents handed to a direct call of an extractor.
MaxSources == 2

\* The shapes of the bounded inputs: the item ids that may occur in a file
\* and the categories that the feedback objects rate (every other category
\* key is absent from every feedback object).  The first shape has several
\* items and one rated category, the second one item and two.
Shapes ==
    {[posts |-> {1, 2}, rated |-> {"theme"}],
     [posts |-> {1}, rated |-> {"theme", "objects"}]}

Labels == {"positive", "negative", "null"}

(***************************************************************************)
(* Program constants.                                                        *)
(***************************************************************************)
Scale == 10000

\* KappaCalculator.__init__: self.feedback_categories
feedback_categories ==
    <<"overall", "theme", "objects", "sentiment", "contentQuality", "contentIntent">>

\* ModelEvaluator.__init__: self.feedback_categories ('overall' commented out)
eval_feedback_categories ==
    <<"theme", "objects", "sentiment", "contentQuality", "contentIntent">>

\* A cell of a pivot table for which the reviewer has no record of the item.
NaN == 2

(***************************************************************************)
(* Generic helpers.                                                          *)
(***************************************************************************)
Range(s) == {s[i] : i \in DOMAIN s}

RECURSIVE SumSeq(_)
SumSeq(s) == IF s = <<>> THEN 0 ELSE Head(s) + SumSeq(Tail(s))

RECURSIVE Flatten(_)
Flatten(ss) == IF ss = <<>> THEN <<>> ELSE Head(ss) \o Flatten(Tail(ss))

RECURSIVE SortedSeq(_)
SortedSeq(S) ==
    IF S = {} THEN <<>>
    ELSE LET m == CHOOSE x \in S : \A y \in S : x <= y
         IN  <<m>> \o SortedSeq(S \ {m})

\* First occurrences of the values of s, in order (pandas Series.unique()).
RECURSIVE UniqueSeq(_)
UniqueSeq(s) ==
    IF s = <<>> THEN <<>>
    ELSE LET r == UniqueSeq(SubSeq(s, 1, Len(s) - 1))
             x == s[Len(s)]
         IN  IF x \in Range(r) THEN r ELSE Append(r, x)

\* n / d rounded to the nearest integer, ties to even (d > 0).
RoundDiv(n, d) ==
    LET q == n \div d
        r == n - q * d
    IN  IF 2 * r < d THEN q
        ELSE IF 2 * r > d THEN q + 1
        ELSE IF q % 2 = 0 THEN q ELSE q + 1

\* round(n / d, 4), as a multiple of 1/Scale.
Round4(n, d) == RoundDiv(n * Scale, d)

(***************************************************************************)
(* Score values: None, NaN or a number (scaled by Scale).                    *)
(***************************************************************************)
None == [kind |-> "None", v |-> 0]
NaNScore == [kind |-> "nan", v |-> 0]
Num(x) == [kind |-> "num", v |-> x]

IsNone(s) == s.kind = "None"
IsNum(s) == s.kind = "num"

(***************************************************************************)
(* Outcomes of a call: not returned yet, or an exception (a returned result  *)
(* has status "ok").                                                         *)
(***************************************************************************)
Pending == [status |-> "pending"]
\* An analysis that is not part of the run, and a run without a direct call.
Skipped == [status |-> "skipped"]
NoCall == [op |-> "none"]
Raised(e) == [status |-> "error", error |-> e]

(***************************************************************************)
(* Inputs: an ordered list of files; a file is the list of its posts; a post *)
(* has a postId and a feedback object (a missing key and a null value are    *)
(* both "null").                                                             *)
(***************************************************************************)
Feedbacks(rated) ==
    {[c \in Range(feedback_categories) |-> IF c \in rated THEN f[c] ELSE "null"] :
     f \in [rated -> Labels]}

\* The files of a shape: any subset of the shape's items, each with any
\* feedback object of the shape, listed by ascending postId.
FilesOf(shape) ==
    {[j \in 1..Cardinality(ids) |->
        [postId |-> SortedSeq(ids)[j], feedback |-> fb[SortedSeq(ids)[j]]]] :
     ids \in SUBSET shape.posts, fb \in [shape.posts -> Feedbacks(shape.rated)]}

Inputs ==
    UNION {UNION {[1..n -> FilesOf(shape)] : n \in 0..MaxFiles} : shape \in Shapes}

\* Two files over two items and two rated categories.
WideShape == [posts |-> {1, 2}, rated |-> {"theme", "objects"}]

PairInputs == [1..2 -> FilesOf(WideShape)]

\* Three files over two items and one rated category.
TripleInputs == [1..3 -> FilesOf([posts |-> {1, 2}, rated |-> {"theme"}])]

\* Files that may list their one item twice, each time with a rating (one
\* rated category).
RepeatShape == [posts |-> {1}, rated |-> {"theme"}]

RepeatFiles ==
    FilesOf(RepeatShape) \cup
    {f \o g : f, g \in {h \in FilesOf(RepeatShape) :
                            Len(h) = 1 /\ h[1].feedback["theme"] # "null"}}

RepeatInputs == UNION {[1..n -> RepeatFiles] : n \in 0..MaxFiles}

\* Two files over one item and three rated categories.
DeepInputs == [1..2 -> FilesOf([posts |-> {1}, rated |-> {"theme", "objects", "sentiment"}])]

\* Two files that list up to two items in any order; an item's feedback
\* rates three categories in one of six ways.
Patterns ==
    {<<"negative", "negative", "negative">>, <<"negative", "negative", "positive">>,
     <<"negative", "positive", "positive">>, <<"negative", "positive", "null">>,
     <<"negative", "null", "null">>, <<"null", "null", "null">>}

PatternFeedback(pt) ==
    [c \in Range(feedback_categories) |->
        IF c = "theme" THEN pt[1]
        ELSE IF c = "objects" THEN pt[2]
        ELSE IF c = "sentiment" THEN pt[3] ELSE "null"]

OrderedFiles ==
    {<<>>}
    \cup {<<[postId |-> p, feedback |-> PatternFeedback(pt)]>> : p \in {1, 2}, pt \in Patterns}
    \cup {<<[postId |-> p, feedback |-> PatternFeedback(pt)],
            [postId |-> 3 - p, feedback |-> PatternFeedback(qt)]>> :
            p \in {1, 2}, pt \in Patterns, qt \in Patterns}

OrderedInputs == [1..2 -> OrderedFiles]

(***************************************************************************)
(* Record extractor (KappaCalculator.extract_annotations).                   *)
(***************************************************************************)
\* Mutant of label_mapping: the default of the lookup is 0.
label_mapping_DefaultNegative(rating) ==
    CASE rating = "positive" -> 1
      [] rating = "negative" -> 0
      [] OTHER -> 0

\* self.label_mapping.get(rating, -1)
label_mapping(rating) ==
    CASE rating = "positive" -> 1
      [] rating = "negative" -> 0
      [] OTHER -> -1

\* post.get('feedback', {}).get(category): None ("null") when the post has
\* no feedback object or the object has no such key.
FeedbackGet(post, category) ==
    IF "feedback" \in DOMAIN post /\ category \in DOMAIN post.feedback
    THEN post.feedback[category]
    ELSE "null"

PostRecords(annotator, post, categories) ==
    [k \in 1..Len(categories) |->
        [postId |-> post.postId,
         annotator |-> annotator,
         category |-> categories[k],
         rating |-> label_mapping(FeedbackGet(post, categories[k]))]]

FileRecords(annotator, file, categories) ==
    Flatten([j \in 1..Len(file) |-> PostRecords(annotator, file[j], categories)])

extract_annotations(feedback_files) ==
    Flatten([i \in 1..Len(feedback_files) |->
                FileRecords(i, feedback_files[i], feedback_categories)])

\* df['annotator'].nunique(); df['postId'].nunique()
nunique_annotator(df) == Cardinality({r.annotator : r \in Range(df)})
nunique_postId(df) == Cardinality({r.postId : r \in Range(df)})

(***************************************************************************)
(* The extractors on source documents.  A source is a file that is or is not *)
(* well-formed JSON; a well-formed one carries a reviewer identifier of its  *)
(* own, and has or lacks the key 'posts'.  A post of a source has or lacks a *)
(* feedback object, which has or lacks the key of a category; the value of a *)
(* key is a label, null or some other string.                                *)
(***************************************************************************)
RawLabels == Labels \cup {"neutral"}

RawPosts ==
    {[postId |-> p] : p \in {1, 2}}
    \cup {[postId |-> p, feedback |-> fb] :
            p \in {1, 2}, fb \in UNION {[ks -> RawLabels] : ks \in SUBSET {"theme"}}}

Malformed == [wellformed |-> FALSE, reviewer |-> 1, hasPosts |-> FALSE, posts |-> <<>>]

Sources ==
    {Malformed}
    \cup {[wellformed |-> TRUE, reviewer |-> r, hasPosts |-> FALSE, posts |-> <<>>] :
            r \in {1, 2}}
    \cup {[wellformed |-> TRUE, reviewer |-> r, hasPosts |-> TRUE, posts |-> ps] :
            r \in {1, 2}, ps \in {<<>>} \cup {<<post>> : post \in RawPosts}}

SourceInputs == UNION {[1..n -> Sources] : n \in 0..MaxSources}

\* load_feedback_json: json.load raises on a file that is not JSON.
load_feedback_json(source) == [raised |-> ~source.wellformed, data |-> source]

\* data.get('posts', [])
DataPosts(data) == IF data.hasPosts THEN data.posts ELSE <<>>

\* Mutant of annotator_name: the index is used as it is.
annotator_name_ZeroBased(annotator_idx) == annotator_idx

\* f"Annotator_{annotator_idx + 1}", annotator_idx counted from 0
annotator_name(annotator_idx) == annotator_idx + 1

\* The loop over enumerate(feedback_files) of extract_annotations and of
\* extract_evaluations (which differ in self.feedback_categories).
ExtractRecords(sources, categories) ==
    IF \E i \in DOMAIN sources : load_feedback_json(sources[i]).raised
    THEN Raised("JSONDecodeError")
    ELSE [status |-> "ok",
          table |-> Flatten([i \in 1..Len(sources) |->
                       FileRecords(annotator_name(i - 1),
                                   DataPosts(load_feedback_json(sources[i]).data),
                                   categories)])]

(***************************************************************************)
(* The model's predictions in extract_evaluations.  A prediction value is    *)
(* None, a scalar (one item) or a list of scalars.                           *)
(***************************************************************************)
NoPrediction == [kind |-> "none", items |-> <<>>]
Scalar(x) == [kind |-> "scalar", items |-> <<x>>]
ListOf(xs) == [kind |-> "list", items |-> xs]

\* field_name_map.get(category)
field_name_map(category) ==
    CASE category = "overall" -> "llmOverall"
      [] category = "theme" -> "llmTheme"
      [] category = "objects" -> "llmObjects"
      [] category = "sentiment" -> "llmSentiment"
      [] category = "contentQuality" -> "llmContentQuality"
      [] category = "contentIntent" -> "llmContentIntent"

\* post.get('llm', {}).get(field)
LlmGet(post, field) ==
    IF "llm" \in DOMAIN post /\ field \in DOMAIN post.llm
    THEN post.llm[field]
    ELSE NoPrediction

\* ai_prediction of one record: the first element of a list (None for an
\* empty one) when category == 'objects', the value itself otherwise.
AiPrediction(post, category) ==
    LET ai_prediction == LlmGet(post, field_name_map(category))
    IN  IF category = "objects" /\ ai_prediction.kind = "list"
        THEN IF ai_prediction.items # <<>>
             THEN Scalar(ai_prediction.items[1])
             ELSE NoPrediction
        ELSE ai_prediction

\* The records of one post in extract_evaluations: those of PostRecords
\* (rating stands for is_correct) with the ai_prediction.
EvalPostRecords(annotator, post) ==
    [k \in 1..Len(eval_feedback_categories) |->
        [postId |-> post.postId,
         annotator |-> annotator,
         category |-> eval_feedback_categories[k],
         rating |-> PostRecords(annotator, post, eval_feedback_categories)[k].rating,
         ai_prediction |-> AiPrediction(post, eval_feedback_categories[k])]]

\* ModelEvaluator.extract_evaluations on source documents.
ExtractEvaluationRecords(sources) ==
    IF \E i \in DOMAIN sources : load_feedback_json(sources[i]).raised
    THEN Raised("JSONDecodeError")
    ELSE [status |-> "ok",
          table |-> Flatten([i \in 1..Len(sources) |->
                       LET posts == DataPosts(load_feedback_json(sources[i]).data)
                       IN  Flatten([j \in 1..Len(posts) |->
                               EvalPostRecords(annotator_name(i - 1), posts[j])])])]

\* Posts with predictions: item 1, rated or not in theme, with no llm object
\* or one that has or lacks the fields of theme and of objects.
PredictionValues ==
    {Scalar("cat"), ListOf(<<>>), ListOf(<<"cat">>), ListOf(<<"cat", "dog">>)}

PredictionPosts ==
    LET fbs == {[theme |-> "positive"], [theme |-> "negative"]}
    IN  {[postId |-> 1, feedback |-> fb] : fb \in fbs}
        \cup {[postId |-> 1, feedback |-> fb, llm |-> llm] :
                fb \in fbs,
                llm \in UNION {[ks -> PredictionValues] :
                                  ks \in SUBSET {"llmTheme", "llmObjects"}}}

PredictionSources ==
    {[wellformed |-> TRUE, reviewer |-> 1, hasPosts |-> TRUE, posts |-> <<post>>] :
        post \in PredictionPosts}

PredictionInputs == UNION {[1..n -> PredictionSources] : n \in 1..2}

(***************************************************************************)
(* DataFrame.pivot(index='postId', columns='annotator', values='rating') of  *)
(* the rows of one category.  It raises when a (postId, annotator) pair      *)
(* occurs twice; a pair that does not occur gives a NaN cell.                *)
(***************************************************************************)
CategoryData(df, category) == SelectSeq(df, LAMBDA r : r.category = category)

Pivot(df, category) ==
    LET cd == CategoryData(df, category)
        dup == \E i, j \in DOMAIN cd :
                  i < j /\ cd[i].postId = cd[j].postId /\ cd[i].annotator = cd[j].annotator
        index == SortedSeq({r.postId : r \in Range(cd)})
        columns == SortedSeq({r.annotator : r \in Range(cd)})
        cell(p, a) ==
            IF \E i \in DOMAIN cd : cd[i].postId = p /\ cd[i].annotator = a
            THEN (CHOOSE r \in Range(cd) : r.postId = p /\ r.annotator = a).rating
            ELSE NaN
    IN  [raised |-> dup,
         columns |-> columns,
         rows |-> IF dup THEN <<>>
                  ELSE [i \in 1..Len(index) |->
                           [postId |-> index[i],
                            row |-> [k \in 1..Len(columns) |-> cell(index[i], columns[k])]]]]

\* pivot[(pivot != -1).all(axis=1)]
CleanAll(pivot) ==
    SelectSeq(pivot.rows, LAMBDA r : \A k \in DOMAIN r.row : r.row[k] # -1)

\* pivot[(pivot[a0] != -1) & (pivot[a1] != -1)]
CleanTwo(pivot) ==
    SelectSeq(pivot.rows, LAMBDA r : r.row[1] # -1 /\ r.row[2] # -1)

(***************************************************************************)
(* Two-rater statistic.                                                      *)
(***************************************************************************)
\* KappaCalculator.prepare_matrix_for_cohens
prepare_matrix_for_cohens(df, category) ==
    LET pivot == Pivot(df, category)
    IN  IF pivot.raised \/ Len(pivot.columns) # 2
        THEN [raised |-> TRUE, ratings1 |-> <<>>, ratings2 |-> <<>>]
        ELSE LET clean_data == CleanTwo(pivot)
             IN  [raised |-> FALSE,
                  ratings1 |-> [i \in 1..Len(clean_data) |-> clean_data[i].row[1]],
                  ratings2 |-> [i \in 1..Len(clean_data) |-> clean_data[i].row[2]]]

\* numpy.array_equal: same shape and all elements equal (NaN equals nothing).
array_equal(a, b) ==
    /\ Len(a) = Len(b)
    /\ \A i \in DOMAIN a : a[i] # NaN /\ b[i] # NaN /\ a[i] = b[i]

\* sklearn.metrics.cohen_kappa_score: raises on a NaN input; otherwise
\* 1 - sum(w * confusion) / sum(w * expected) with w = 1 off the diagonal.
cohen_kappa_score(y1, y2) ==
    IF \E i \in DOMAIN y1 : y1[i] = NaN \/ y2[i] = NaN
    THEN [raised |-> TRUE, score |-> None]
    ELSE LET n == Len(y1)
             d == Cardinality({i \in DOMAIN y1 : y1[i] # y2[i]})
             c1pos == Cardinality({i \in DOMAIN y1 : y1[i] = 1})
             c2pos == Cardinality({i \in DOMAIN y2 : y2[i] = 1})
             e == (n - c2pos) * c1pos + c2pos * (n - c1pos)
         IN  [raised |-> FALSE,
              score |-> IF e = 0 THEN NaNScore ELSE Num(Round4(e - n * d, e))]

\* The body of the loop of KappaCalculator.calculate_cohens_kappa.
CohenCategory(df, category) ==
    LET m == prepare_matrix_for_cohens(df, category)
    IN  IF m.raised THEN None
        ELSE IF array_equal(m.ratings1, m.ratings2) THEN Num(Scale)
        ELSE LET k == cohen_kappa_score(m.ratings1, m.ratings2)
             IN  IF k.raised THEN None ELSE k.score

\* The except clause of that loop is entered.
CohenFails(df, category) ==
    LET m == prepare_matrix_for_cohens(df, category)
    IN  \/ m.raised
        \/ /\ ~array_equal(m.ratings1, m.ratings2)
           /\ cohen_kappa_score(m.ratings1, m.ratings2).raised

\* Mutant of calculate_cohens_kappa: the first failure ends the loop, and
\* the categories not reached are null.
calculate_cohens_kappa_StopAtFailure(df) ==
    LET done == {k \in DOMAIN feedback_categories :
                    \A j \in 1..k : ~CohenFails(df, feedback_categories[j])}
    IN  [c \in Range(feedback_categories) |->
            IF c \in {feedback_categories[k] : k \in done}
            THEN CohenCategory(df, c) ELSE None]

calculate_cohens_kappa(df) ==
    [c \in Range(feedback_categories) |-> CohenCategory(df, c)]

(***************************************************************************)
(* Multi-rater statistic.                                                    *)
(***************************************************************************)
\* KappaCalculator.prepare_matrix_for_fleiss: one <<count of 0, count of 1>>
\* per retained row.
prepare_matrix_for_fleiss(df, category) ==
    LET pivot == Pivot(df, category)
        clean_data == CleanAll(pivot)
    IN  IF pivot.raised \/ Len(clean_data) = 0
        THEN [raised |-> TRUE, count_matrix |-> <<>>]
        ELSE [raised |-> FALSE,
              count_matrix |->
                [i \in 1..Len(clean_data) |->
                    <<Cardinality({k \in DOMAIN clean_data[i].row : clean_data[i].row[k] = 0}),
                      Cardinality({k \in DOMAIN clean_data[i].row : clean_data[i].row[k] = 1})>>]]

MaxOf(S) == CHOOSE x \in S : \A y \in S : y <= x

\* statsmodels.stats.inter_rater.fleiss_kappa(table): asserts that every row
\* holds the same number of ratings; 0/0 gives NaN.
fleiss_kappa(table) ==
    LET n_sub == Len(table)
        n_rater == [i \in 1..n_sub |-> table[i][1] + table[i][2]]
        n_total == SumSeq(n_rater)
        n_rat == MaxOf(Range(n_rater))
        s0 == SumSeq([i \in 1..n_sub |-> table[i][1]])
        s1 == SumSeq([i \in 1..n_sub |-> table[i][2]])
        a == SumSeq([i \in 1..n_sub |->
                        table[i][1] * table[i][1] + table[i][2] * table[i][2] - n_rat])
        d1 == n_sub * n_rat * (n_rat - 1)
        b == s0 * s0 + s1 * s1
        t2 == n_total * n_total
    IN  IF n_total # n_sub * n_rat THEN [raised |-> TRUE, score |-> None]
        ELSE [raised |-> FALSE,
              score |-> IF d1 = 0 \/ t2 = b THEN NaNScore
                        ELSE Num(Round4(a * t2 - b * d1, d1 * (t2 - b)))]

\* The body of the loop of KappaCalculator.calculate_fleiss_kappa.
FleissCategory(df, category) ==
    LET m == prepare_matrix_for_fleiss(df, category)
    IN  IF m.raised THEN None
        ELSE IF Len(m.count_matrix) = 0 THEN None
        ELSE LET k == fleiss_kappa(m.count_matrix)
             IN  IF k.raised THEN None ELSE k.score

\* The except clause of that loop is entered.
FleissFails(df, category) ==
    LET m == prepare_matrix_for_fleiss(df, category)
    IN  m.raised \/ fleiss_kappa(m.count_matrix).raised

calculate_fleiss_kappa(df) ==
    [c \in Range(feedback_categories) |-> FleissCategory(df, c)]

(***************************************************************************)
(* Raw agreement and confusion matrices.                                     *)
(***************************************************************************)
\* len(set(row.values)): NaN cells are pairwise different.
RowSetSize(row) ==
    Cardinality({row[k] : k \in {j \in DOMAIN row : row[j] # NaN}})
        + Cardinality({k \in DOMAIN row : row[k] = NaN})

\* The body of the loop of KappaCalculator.calculate_raw_agreement.
RawCategory(df, category) ==
    LET pivot == Pivot(df, category)
        clean_data == CleanAll(pivot)
        total == Len(clean_data)
        agreements == Cardinality({i \in DOMAIN clean_data : RowSetSize(clean_data[i].row) = 1})
    IN  IF pivot.raised THEN None
        ELSE IF total = 0 THEN None
        ELSE Num(Round4(agreements, total))

\* The except clause of that loop is entered.
RawFails(df, category) == Pivot(df, category).raised

calculate_raw_agreement(df) ==
    [c \in Range(feedback_categories) |-> RawCategory(df, c)]

\* Mutant of ConfusionCategory: both off-diagonal cells count the pair (1, 0).
ConfusionCategory_OneOffDiagonal(df, category) ==
    LET pivot == Pivot(df, category)
        clean_data == CleanTwo(pivot)
        n == Len(clean_data)
        cnt(x, y) == Cardinality({i \in DOMAIN clean_data :
                                    clean_data[i].row[1] = x /\ clean_data[i].row[2] = y})
        pos_pos == cnt(1, 1)
        pos_neg == cnt(1, 0)
        neg_pos == cnt(1, 0)
        neg_neg == cnt(0, 0)
    IN  IF pivot.raised \/ Len(pivot.columns) < 2 THEN None
        ELSE IF n = 0 THEN None
        ELSE [kind |-> "matrix",
              positive_positive |-> pos_pos,
              positive_negative |-> pos_neg,
              negative_positive |-> neg_pos,
              negative_negative |-> neg_neg,
              total_items |-> n,
              annotator_1_positive_rate |-> Round4(pos_pos + pos_neg, n),
              annotator_2_positive_rate |-> Round4(pos_pos + neg_pos, n)]

\* The body of the loop of KappaCalculator.calculate_confusion_matrices.
ConfusionCategory(df, category) ==
    LET pivot == Pivot(df, category)
        clean_data == CleanTwo(pivot)
        n == Len(clean_data)
        cnt(x, y) == Cardinality({i \in DOMAIN clean_data :
                                    clean_data[i].row[1] = x /\ clean_data[i].row[2] = y})
        pos_pos == cnt(1, 1)
        pos_neg == cnt(1, 0)
        neg_pos == cnt(0, 1)
        neg_neg == cnt(0, 0)
    IN  IF pivot.raised \/ Len(pivot.columns) < 2 THEN None
        ELSE IF n = 0 THEN None
        ELSE [kind |-> "matrix",
              positive_positive |-> pos_pos,
              positive_negative |-> pos_neg,
              negative_positive |-> neg_pos,
              negative_negative |-> neg_neg,
              total_items |-> n,
              annotator_1_positive_rate |-> Round4(pos_pos + pos_neg, n),
              annotator_2_positive_rate |-> Round4(pos_pos + neg_pos, n)]

\* Mutant of ConfusionGuard: the guard only rejects fewer than two annotators.
ConfusionGuard_AtLeastTwo(df) == nunique_annotator(df) < 2

\* n_annotators != 2: return the empty mapping
ConfusionGuard(df) == nunique_annotator(df) # 2

calculate_confusion_matrices(df) ==
    IF ConfusionGuard(df) THEN <<>>
    ELSE [c \in Range(feedback_categories) |-> ConfusionCategory(df, c)]

(***************************************************************************)
(* KappaCalculator.calculate_agreement.                                      *)
(***************************************************************************)
\* Mutant of ValidScores: a null score is kept and counts as zero.
ValidScores_NoneAsZero(scores) ==
    [k \in 1..Len(feedback_categories) |->
        IF IsNone(scores[feedback_categories[k]]) THEN Num(0)
        ELSE scores[feedback_categories[k]]]

\* [v for v in scores.values() if v is not None], in category order
ValidScores(scores) ==
    SelectSeq([k \in 1..Len(feedback_categories) |-> scores[feedback_categories[k]]],
              LAMBDA s : ~IsNone(s))

\* round(np.mean(valid), 4) if valid else None
MeanOfValid(scores) ==
    LET valid == ValidScores(scores)
    IN  IF Len(valid) = 0 THEN None
        ELSE IF \E i \in DOMAIN valid : valid[i].kind = "nan" THEN NaNScore
        ELSE Num(RoundDiv(SumSeq([i \in DOMAIN valid |-> valid[i].v]), Len(valid)))

\* Mutant of _interpret_kappa: the lower bound of "Fair" is exclusive.
_interpret_kappa_ExclusiveBound(kappa) ==
    IF IsNone(kappa) THEN "Unknown"
    ELSE IF IsNum(kappa) /\ kappa.v < 0 THEN "Poor"
    ELSE IF IsNum(kappa) /\ kappa.v <= 2000 THEN "Slight"
    ELSE IF IsNum(kappa) /\ kappa.v < 4000 THEN "Fair"
    ELSE IF IsNum(kappa) /\ kappa.v < 6000 THEN "Moderate"
    ELSE IF IsNum(kappa) /\ kappa.v < 8000 THEN "Substantial"
    ELSE "Almost Perfect"

\* KappaCalculator._interpret_kappa (the level); every comparison with NaN
\* is false.
_interpret_kappa(kappa) ==
    IF IsNone(kappa) THEN "Unknown"
    ELSE IF IsNum(kappa) /\ kappa.v < 0 THEN "Poor"
    ELSE IF IsNum(kappa) /\ kappa.v < 2000 THEN "Slight"
    ELSE IF IsNum(kappa) /\ kappa.v < 4000 THEN "Fair"
    ELSE IF IsNum(kappa) /\ kappa.v < 6000 THEN "Moderate"
    ELSE IF IsNum(kappa) /\ kappa.v < 8000 THEN "Substantial"
    ELSE "Almost Perfect"

\* Mutant of KappaMode: the multi-rater branch is missing.
KappaMode_NoFleiss(n_annotators) ==
    IF n_annotators >= 2 THEN "Cohen's Kappa" ELSE "ValueError"

\* The choice of the statistic from n_annotators.
KappaMode(n_annotators) ==
    IF n_annotators = 2 THEN "Cohen's Kappa"
    ELSE IF n_annotators >= 3 THEN "Fleiss' Kappa"
    ELSE "ValueError"

calculate_agreement(feedback_files) ==
    LET df == extract_annotations(feedback_files)
        n_annotators == nunique_annotator(df)
        kappa_type == KappaMode(n_annotators)
        kappa_scores == IF kappa_type = "Cohen's Kappa"
                        THEN calculate_cohens_kappa(df)
                        ELSE calculate_fleiss_kappa(df)
        overall_kappa == MeanOfValid(kappa_scores)
        raw_agreement_scores == calculate_raw_agreement(df)
    IN  IF df = <<>> THEN Raised("KeyError")
        ELSE IF kappa_type = "ValueError" THEN Raised("ValueError")
        ELSE [status |-> "ok",
              kappa_type |-> kappa_type,
              n_annotators |-> n_annotators,
              n_posts |-> nunique_postId(df),
              category_scores |-> kappa_scores,
              overall_kappa |-> overall_kappa,
              raw_agreement_scores |-> raw_agreement_scores,
              overall_raw_agreement |-> MeanOfValid(raw_agreement_scores),
              confusion_matrices |-> calculate_confusion_matrices(df),
              interpretation |-> _interpret_kappa(overall_kappa)]

(***************************************************************************)
(* KappaCalculator.export_results: json.dump of the scores.  A score is      *)
(* written as the token null, as the token NaN (which json.dump emits for a  *)
(* float NaN although it is not JSON), or as the shortest decimal numeral of *)
(* the float: a sign, the integer digit and the fraction digits without      *)
(* trailing zeros (at least one).                                            *)
(***************************************************************************)
RECURSIVE StripZeros(_)
StripZeros(ds) ==
    IF Len(ds) > 1 /\ ds[Len(ds)] = 0 THEN StripZeros(SubSeq(ds, 1, Len(ds) - 1)) ELSE ds

\* float.__repr__ of a multiple of 1/Scale of absolute value at most 1
FloatRepr(v) ==
    LET n == IF v < 0 THEN -v ELSE v
        frac == n % Scale
    IN  [tok |-> "number",
         neg |-> v < 0,
         int |-> n \div Scale,
         frac |-> StripZeros(<<frac \div 1000, (frac \div 100) % 10,
                               (frac \div 10) % 10, frac % 10>>)]

JsonDump(score) ==
    IF IsNone(score) THEN [tok |-> "null"]
    ELSE IF IsNum(score) THEN FloatRepr(score.v)
    ELSE [tok |-> "NaN"]

\* The written document (the score fields of export_data).
export_results(results) ==
    [category_scores |->
        [c \in Range(feedback_categories) |-> JsonDump(results.category_scores[c])],
     overall_kappa |-> JsonDump(results.overall_kappa),
     raw_agreement_scores |->
        [c \in Range(feedback_categories) |-> JsonDump(results.raw_agreement_scores[c])],
     overall_raw_agreement |-> JsonDump(results.overall_raw_agreement)]

\* Reading a numeral: the value of its digits, as a multiple of 1/Scale.
RECURSIVE FracValue(_, _)
FracValue(ds, weight) ==
    IF ds = <<>> THEN 0 ELSE Head(ds) * weight + FracValue(Tail(ds), weight \div 10)

ParseNumber(t) ==
    LET n == t.int * Scale + FracValue(t.frac, Scale \div 10)
    IN  Num(IF t.neg THEN -n ELSE n)

\* A JSON parser on one token; lenient parsers (Python's json.load) read the
\* token NaN as a float NaN, strict parsers reject the document.
ParseToken(t, lenient) ==
    IF t.tok = "null" THEN None
    ELSE IF t.tok = "number" THEN ParseNumber(t)
    ELSE IF lenient THEN NaNScore ELSE [kind |-> "invalid", v |-> 0]

ParseDocument(doc, lenient) ==
    LET parsed == [category_scores |->
                      [c \in Range(feedback_categories) |->
                          ParseToken(doc.category_scores[c], lenient)],
                   overall_kappa |-> ParseToken(doc.overall_kappa, lenient),
                   raw_agreement_scores |->
                      [c \in Range(feedback_categories) |->
                          ParseToken(doc.raw_agreement_scores[c], lenient)],
                   overall_raw_agreement |-> ParseToken(doc.overall_raw_agreement, lenient)]
        invalid == \/ \E c \in Range(feedback_categories) :
                         \/ parsed.category_scores[c].kind = "invalid"
                         \/ parsed.raw_agreement_scores[c].kind = "invalid"
                   \/ parsed.overall_kappa.kind = "invalid"
                   \/ parsed.overall_raw_agreement.kind = "invalid"
    IN  IF invalid THEN Raised("JSONDecodeError")
        ELSE [status |-> "ok", data |-> parsed]

(***************************************************************************)
(* ModelEvaluator.                                                           *)
(***************************************************************************)
\* ModelEvaluator.extract_evaluations (the fields the verdicts read).
extract_evaluations(feedback_files) ==
    Flatten([i \in 1..Len(feedback_files) |->
                FileRecords(i, feedback_files[i], eval_feedback_categories)])

\* Mutant of build_consensus: a tie is decided as correct.
build_consensus_TieIsCorrect(df, category, post_id) ==
    LET rows == SelectSeq(df, LAMBDA r : r.category = category /\ r.postId = post_id
                                         /\ r.rating # -1)
        judgments == [i \in 1..Len(rows) |-> rows[i].rating]
        correct_votes == Cardinality({i \in DOMAIN judgments : judgments[i] = 1})
        incorrect_votes == Cardinality({i \in DOMAIN judgments : judgments[i] = 0})
        total_votes == Len(judgments)
    IN  IF judgments = <<>>
        THEN [consensus |-> "no_data", num |-> 0, den |-> 1, votes |-> <<>>]
        ELSE IF correct_votes >= incorrect_votes
        THEN [consensus |-> "correct", num |-> correct_votes, den |-> total_votes,
              votes |-> judgments]
        ELSE [consensus |-> "incorrect", num |-> incorrect_votes, den |-> total_votes,
              votes |-> judgments]

\* ModelEvaluator.build_consensus; the confidence is the fraction num / den.
build_consensus(df, category, post_id) ==
    LET rows == SelectSeq(df, LAMBDA r : r.category = category /\ r.postId = post_id
                                         /\ r.rating # -1)
        judgments == [i \in 1..Len(rows) |-> rows[i].rating]
        correct_votes == Cardinality({i \in DOMAIN judgments : judgments[i] = 1})
        incorrect_votes == Cardinality({i \in DOMAIN judgments : judgments[i] = 0})
        total_votes == Len(judgments)
    IN  IF judgments = <<>>
        THEN [consensus |-> "no_data", num |-> 0, den |-> 1, votes |-> <<>>]
        ELSE IF correct_votes > incorrect_votes
        THEN [consensus |-> "correct", num |-> correct_votes, den |-> total_votes,
              votes |-> judgments]
        ELSE IF incorrect_votes > correct_votes
        THEN [consensus |-> "incorrect", num |-> incorrect_votes, den |-> total_votes,
              votes |-> judgments]
        ELSE [consensus |-> "uncertain", num |-> 1, den |-> 2, votes |-> judgments]

\* Mutant of evaluate_category: the rates are taken over all the items.
evaluate_category_OverAllItems(df, category) ==
    LET category_data == CategoryData(df, category)
        post_ids == UniqueSeq([i \in 1..Len(category_data) |-> category_data[i].postId])
        verdict == [i \in 1..Len(post_ids) |-> build_consensus(df, category, post_ids[i])]
        count(c) == Cardinality({i \in DOMAIN verdict : verdict[i].consensus = c})
        correct_count == count("correct")
        incorrect_count == count("incorrect")
        total_evaluated == correct_count + incorrect_count
    IN  [correct |-> correct_count,
         incorrect |-> incorrect_count,
         uncertain |-> count("uncertain"),
         no_data |-> count("no_data"),
         total_posts |-> Len(post_ids),
         total_evaluated |-> total_evaluated,
         accuracy |-> IF total_evaluated > 0 THEN Round4(correct_count, Len(post_ids)) ELSE 0,
         error_rate |-> IF total_evaluated > 0 THEN Round4(incorrect_count, Len(post_ids)) ELSE 0,
         consensus_details |->
            [i \in 1..Len(post_ids) |->
                [postId |-> post_ids[i],
                 consensus |-> verdict[i].consensus,
                 confidence |-> Round4(verdict[i].num, verdict[i].den),
                 votes |-> verdict[i].votes]]]

\* Mutant of evaluate_category: one verdict per record of the category, not
\* per distinct item.
evaluate_category_EveryRecord(df, category) ==
    LET category_data == CategoryData(df, category)
        post_ids == [i \in 1..Len(category_data) |-> category_data[i].postId]
        verdict == [i \in 1..Len(post_ids) |-> build_consensus(df, category, post_ids[i])]
        count(c) == Cardinality({i \in DOMAIN verdict : verdict[i].consensus = c})
        correct_count == count("correct")
        incorrect_count == count("incorrect")
        total_evaluated == correct_count + incorrect_count
    IN  [correct |-> correct_count,
         incorrect |-> incorrect_count,
         uncertain |-> count("uncertain"),
         no_data |-> count("no_data"),
         total_posts |-> Len(post_ids),
         total_evaluated |-> total_evaluated,
         accuracy |-> IF total_evaluated > 0 THEN Round4(correct_count, total_evaluated) ELSE 0,
         error_rate |-> IF total_evaluated > 0 THEN Round4(incorrect_count, total_evaluated) ELSE 0,
         consensus_details |->
            [i \in 1..Len(post_ids) |->
                [postId |-> post_ids[i],
                 consensus |-> verdict[i].consensus,
                 confidence |-> Round4(verdict[i].num, verdict[i].den),
                 votes |-> verdict[i].votes]]]

\* ModelEvaluator.evaluate_category
evaluate_category(df, category) ==
    LET category_data == CategoryData(df, category)
        post_ids == UniqueSeq([i \in 1..Len(category_data) |-> category_data[i].postId])
        verdict == [i \in 1..Len(post_ids) |-> build_consensus(df, category, post_ids[i])]
        count(c) == Cardinality({i \in DOMAIN verdict : verdict[i].consensus = c})
        correct_count == count("correct")
        incorrect_count == count("incorrect")
        total_evaluated == correct_count + incorrect_count
    IN  [correct |-> correct_count,
         incorrect |-> incorrect_count,
         uncertain |-> count("uncertain"),
         no_data |-> count("no_data"),
         total_posts |-> Len(post_ids),
         total_evaluated |-> total_evaluated,
         accuracy |-> IF total_evaluated > 0 THEN Round4(correct_count, total_evaluated) ELSE 0,
         error_rate |-> IF total_evaluated > 0 THEN Round4(incorrect_count, total_evaluated) ELSE 0,
         consensus_details |->
            [i \in 1..Len(post_ids) |->
                [postId |-> post_ids[i],
                 consensus |-> verdict[i].consensus,
                 confidence |-> Round4(verdict[i].num, verdict[i].den),
                 votes |-> verdict[i].votes]]]

\* Mutant of evaluate_model: the overall accuracy is the mean of the
\* categories' accuracies.
evaluate_model_MeanOfAccuracies(feedback_files) ==
    LET df == extract_evaluations(feedback_files)
        category_results ==
            [c \in Range(eval_feedback_categories) |-> evaluate_category(df, c)]
        total(f) == SumSeq([k \in 1..Len(eval_feedback_categories) |->
                               category_results[eval_feedback_categories[k]][f]])
        total_correct == total("correct")
        total_incorrect == total("incorrect")
        total_evaluated == total_correct + total_incorrect
    IN  IF df = <<>> THEN Raised("KeyError")
        ELSE [status |-> "ok",
              n_annotators |-> nunique_annotator(df),
              n_posts |-> nunique_postId(df),
              category_results |-> category_results,
              overall_metrics |->
                [total_correct |-> total_correct,
                 total_incorrect |-> total_incorrect,
                 total_uncertain |-> total("uncertain"),
                 total_evaluated |-> total_evaluated,
                 overall_accuracy |->
                    IF total_evaluated > 0
                    THEN RoundDiv(total("accuracy"), Len(eval_feedback_categories)) ELSE 0,
                 overall_error_rate |->
                    IF total_evaluated > 0 THEN Round4(total_incorrect, total_evaluated) ELSE 0]]

\* ModelEvaluator.evaluate_model
evaluate_model(feedback_files) ==
    LET df == extract_evaluations(feedback_files)
        category_results ==
            [c \in Range(eval_feedback_categories) |-> evaluate_category(df, c)]
        total(f) == SumSeq([k \in 1..Len(eval_feedback_categories) |->
                               category_results[eval_feedback_categories[k]][f]])
        total_correct == total("correct")
        total_incorrect == total("incorrect")
        total_evaluated == total_correct + total_incorrect
    IN  IF df = <<>> THEN Raised("KeyError")
        ELSE [status |-> "ok",
              n_annotators |-> nunique_annotator(df),
              n_posts |-> nunique_postId(df),
              category_results |-> category_results,
              overall_metrics |->
                [total_correct |-> total_correct,
                 total_incorrect |-> total_incorrect,
                 total_uncertain |-> total("uncertain"),
                 total_evaluated |-> total_evaluated,
                 overall_accuracy |->
                    IF total_evaluated > 0 THEN Round4(total_correct, total_evaluated) ELSE 0,
                 overall_error_rate |->
                    IF total_evaluated > 0 THEN Round4(total_incorrect, total_evaluated) ELSE 0]]

(***************************************************************************)
(* ModelEvaluator.identify_problem_posts.                                    *)
(***************************************************************************)
\* Mutant of ProblemPosts: a post with exactly half of its decided
\* categories wrong is listed too.
ProblemPosts_AtLeastHalf(df) ==
    LET post_ids == UniqueSeq([i \in 1..Len(df) |-> df[i].postId])
        verdict(p, c) == build_consensus(df, c, p).consensus
        errors_in_post(p) ==
            Cardinality({c \in Range(eval_feedback_categories) : verdict(p, c) = "incorrect"})
        total_categories(p) ==
            Cardinality({c \in Range(eval_feedback_categories) :
                            verdict(p, c) \in {"correct", "incorrect"}})
        listed == SelectSeq(post_ids, LAMBDA p :
                      total_categories(p) > 0 /\ 2 * errors_in_post(p) >= total_categories(p))
    IN  [k \in 1..Len(listed) |->
            [postId |-> listed[k],
             errors |-> errors_in_post(listed[k]),
             total |-> total_categories(listed[k]),
             error_rate |-> Round4(errors_in_post(listed[k]), total_categories(listed[k]))]]

\* The loop of identify_problem_posts: the list problem_posts before sorting.
ProblemPosts(df) ==
    LET post_ids == UniqueSeq([i \in 1..Len(df) |-> df[i].postId])
        verdict(p, c) == build_consensus(df, c, p).consensus
        errors_in_post(p) ==
            Cardinality({c \in Range(eval_feedback_categories) : verdict(p, c) = "incorrect"})
        total_categories(p) ==
            Cardinality({c \in Range(eval_feedback_categories) :
                            verdict(p, c) \in {"correct", "incorrect"}})
        listed == SelectSeq(post_ids, LAMBDA p :
                      total_categories(p) > 0 /\ 2 * errors_in_post(p) > total_categories(p))
    IN  [k \in 1..Len(listed) |->
            [postId |-> listed[k],
             errors |-> errors_in_post(listed[k]),
             total |-> total_categories(listed[k]),
             error_rate |-> Round4(errors_in_post(listed[k]), total_categories(listed[k]))]]

RemoveAt(s, i) == SubSeq(s, 1, i - 1) \o SubSeq(s, i + 1, Len(s))

\* Mutant of SortedByErrorRate: entries of equal error_rate come out in the
\* reverse of their order in the list.
RECURSIVE SortedByErrorRate_TiesReversed(_)
SortedByErrorRate_TiesReversed(problem_posts) ==
    IF problem_posts = <<>> THEN <<>>
    ELSE LET m == CHOOSE i \in DOMAIN problem_posts :
                    /\ \A j \in DOMAIN problem_posts :
                          problem_posts[j].error_rate <= problem_posts[i].error_rate
                    /\ \A j \in DOMAIN problem_posts :
                          j > i => problem_posts[j].error_rate < problem_posts[i].error_rate
         IN  <<problem_posts[m]>> \o SortedByErrorRate_TiesReversed(RemoveAt(problem_posts, m))

\* sorted(problem_posts, key=lambda x: x['error_rate'], reverse=True): the
\* sort is stable, also when reversed.
RECURSIVE SortedByErrorRate(_)
SortedByErrorRate(problem_posts) ==
    IF problem_posts = <<>> THEN <<>>
    ELSE LET m == CHOOSE i \in DOMAIN problem_posts :
                    /\ \A j \in DOMAIN problem_posts :
                          problem_posts[j].error_rate <= problem_posts[i].error_rate
                    /\ \A j \in DOMAIN problem_posts :
                          j < i => problem_posts[j].error_rate < problem_posts[i].error_rate
         IN  <<problem_posts[m]>> \o SortedByErrorRate(RemoveAt(problem_posts, m))

\* ModelEvaluator.identify_problem_posts, given results['raw_data'].
identify_problem_posts(df) == SortedByErrorRate(ProblemPosts(df))

(***************************************************************************)
(* The state machine: a run is given its files, and the two analyses are     *)
(* called on them one after the other (app_dashboard.py, main); neither      *)
(* reads the other's result.                                                 *)
(***************************************************************************)
Init ==
    /\ files \in Inputs
    /\ agreement = Pending
    /\ evaluation = Pending
    /\ call = NoCall

CalculateAgreement ==
    /\ agreement.status = "pending"
    /\ agreement' = calculate_agreement(files)
    /\ UNCHANGED <<files, evaluation, call>>

EvaluateModel ==
    /\ agreement.status # "pending"
    /\ evaluation.status = "pending"
    /\ evaluation' = evaluate_model(files)
    /\ UNCHANGED <<files, agreement, call>>

Next == CalculateAgreement \/ EvaluateModel

Spec == Init /\ [][Next]_vars

(***************************************************************************)
(* The same two calls on wider files: two files over two items and two      *)
(* rated categories, three files over two items, and files that list an     *)
(* item twice.                                                               *)
(***************************************************************************)
InitWide ==
    /\ files \in PairInputs \cup TripleInputs \cup RepeatInputs
    /\ agreement = Pending
    /\ evaluation = Pending
    /\ call = NoCall

SpecWide == InitWide /\ [][Next]_vars

(***************************************************************************)
(* The evaluation runner (evaluate_model.py): evaluate_model on the files,   *)
(* then identify_problem_posts on its result, whose raw_data is the table    *)
(* extract_evaluations built from the files.                                 *)
(***************************************************************************)
InitProblems ==
    /\ files \in DeepInputs \cup OrderedInputs
    /\ agreement = Skipped
    /\ evaluation = Pending
    /\ call = NoCall

IdentifyProblemPosts ==
    /\ evaluation.status = "ok"
    /\ call = NoCall
    /\ call' = [op |-> "identify_problem_posts",
                out |-> identify_problem_posts(extract_evaluations(files))]
    /\ UNCHANGED <<files, agreement, evaluation>>

NextProblems == EvaluateModel \/ IdentifyProblemPosts

SpecProblems == InitProblems /\ [][NextProblems]_vars

(***************************************************************************)
(* The agreement runner (use_kappa.py): calculate_agreement on the files,    *)
(* then export_results of its result; a consumer then parses the written     *)
(* document.                                                                 *)
(***************************************************************************)
InitExport ==
    /\ files \in Inputs
    /\ agreement = Pending
    /\ evaluation = Skipped
    /\ call = NoCall

ExportResults ==
    /\ agreement.status = "ok"
    /\ call = NoCall
    /\ call' = [op |-> "export_results", out |-> export_results(agreement)]
    /\ UNCHANGED <<files, agreement, evaluation>>

ParseExported ==
    /\ call.op = "export_results"
    /\ \E lenient \in BOOLEAN :
          call' = [op |-> "parsed", out |-> ParseDocument(call.out, lenient)]
    /\ UNCHANGED <<files, agreement, evaluation>>

NextExport == CalculateAgreement \/ ExportResults \/ ParseExported

SpecExport == InitExport /\ [][NextExport]_vars

(***************************************************************************)
(* Direct calls of the two extractors on source documents.                   *)
(***************************************************************************)
InitExtract ==
    /\ files = <<>>
    /\ agreement = Skipped
    /\ evaluation = Skipped
    /\ call \in {[op |-> o, arg |-> srcs, out |-> Pending] :
                    o \in {"extract_annotations", "extract_evaluations"},
                    srcs \in SourceInputs}

ExtractAnnotations ==
    /\ call.op = "extract_annotations"
    /\ call.out = Pending
    /\ call' = [call EXCEPT !.out = ExtractRecords(call.arg, feedback_categories)]
    /\ UNCHANGED <<files, agreement, evaluation>>

ExtractEvaluations ==
    /\ call.op = "extract_evaluations"
    /\ call.out = Pending
    /\ call' = [call EXCEPT !.out = ExtractEvaluationRecords(call.arg)]
    /\ UNCHANGED <<files, agreement, evaluation>>

NextExtract == ExtractAnnotations \/ ExtractEvaluations

SpecExtract == InitExtract /\ [][NextExtract]_vars

\* The same calls on sources whose posts carry predictions.
InitPredict ==
    /\ files = <<>>
    /\ agreement = Skipped
    /\ evaluation = Skipped
    /\ call \in {[op |-> o, arg |-> srcs, out |-> Pending] :
                    o \in {"extract_annotations", "extract_evaluations"},
                    srcs \in PredictionInputs}

SpecPredict == InitPredict /\ [][NextExtract]_vars

(***************************************************************************)
(* Direct calls of _interpret_kappa on a score, next to the runs above (a   *)
(* run calls it on its overall_kappa).  The scores are null and every       *)
(* multiple of 1/Scale from -1 to 1.                                         *)
(***************************************************************************)
ScoreInputs == {None} \cup {Num(x) : x \in -Scale..Scale}

InitInterpret ==
    /\ files = <<>>
    /\ agreement = Skipped
    /\ evaluation = Skipped
    /\ call \in {[op |-> "_interpret_kappa", arg |-> s, out |-> Pending] : s \in ScoreInputs}

InterpretKappa ==
    /\ call.op = "_interpret_kappa"
    /\ call.out = Pending
    /\ call' = [call EXCEPT !.out = [status |-> "ok", level |-> _interpret_kappa(call.arg)]]
    /\ UNCHANGED <<files, agreement, evaluation>>

NextInterpret == Next \/ InterpretKappa

SpecInterpret == (Init \/ InitInterpret) /\ [][NextInterpret]_vars

(***************************************************************************)
(* Reference notions of the specification, read off the input files alone.   *)
(* A reviewer is a file that lists at least one item; a reviewer's rating of *)
(* an item in a category is 1, 0 or missing (-1), and an item the reviewer's *)
(* file does not list is missing as well.  A retained row of a category is   *)
(* an item that every reviewer rated 0 or 1 in that category.                *)
(***************************************************************************)
Categories == Range(feedback_categories)

ReviewersOf(fs) == {i \in DOMAIN fs : Len(fs[i]) > 0}

RatingOf(fs, i, p, c) ==
    IF \E j \in DOMAIN fs[i] : fs[i][j].postId = p
    THEN LET post == CHOOSE q \in Range(fs[i]) : q.postId = p
         IN  IF post.feedback[c] = "positive" THEN 1
             ELSE IF post.feedback[c] = "negative" THEN 0 ELSE -1
    ELSE -1

AllItemsOf(fs) == UNION {{fs[i][j].postId : j \in DOMAIN fs[i]} : i \in DOMAIN fs}

Retained(fs, c) ==
    {p \in AllItemsOf(fs) : \A i \in ReviewersOf(fs) : RatingOf(fs, i, p, c) \in {0, 1}}

Unanimous(fs, c, p) ==
    \A i, k \in ReviewersOf(fs) : RatingOf(fs, i, p, c) = RatingOf(fs, k, p, c)

UnanimousRetained(fs, c) == {p \in Retained(fs, c) : Unanimous(fs, c, p)}

\* The files with every item outside keep removed.
RestrictTo(fs, keep) ==
    [i \in DOMAIN fs |-> SelectSeq(fs[i], LAMBDA post : post.postId \in keep)]

AgreementDone == agreement.status = "ok"
EvaluationDone == evaluation.status = "ok"

\* x is n / d rounded to 4 decimals (either way on an exact tie).
IsRounded(x, n, d) == 2 * (x * d - n * Scale) <= d /\ 2 * (n * Scale - x * d) <= d

(***************************************************************************)
(* C1.  With exactly two reviewers, a category in which the two reviewers'   *)
(* retained ratings are equal in every row (and there is such a row) has     *)
(* category_scores[category] = 1.0 exactly.                                  *)
(***************************************************************************)
C1_IdenticalRetainedScoreOne ==
    (AgreementDone /\ Cardinality(ReviewersOf(files)) = 2) =>
        \A c \in Categories :
            (Retained(files, c) # {} /\ UnanimousRetained(files, c) = Retained(files, c))
                => agreement.category_scores[c] = Num(Scale)

(***************************************************************************)
(* C2.  For every reviewer count >= 2, a category with zero retained rows    *)
(* has a null category score.                                                *)
(***************************************************************************)
C2_ZeroRetainedScoreNull ==
    AgreementDone =>
        \A c \in Categories :
            Retained(files, c) = {} => IsNone(agreement.category_scores[c])

(***************************************************************************)
(* C3.  Only retained rows are used: removing from the input every item that *)
(* is not a retained row of a category leaves that category's score, raw     *)
(* agreement and confusion matrix unchanged.                                 *)
(***************************************************************************)
C3_OnlyRetainedRowsUsed ==
    AgreementDone =>
        \A c \in Categories :
            Retained(files, c) # {} =>
                LET only == calculate_agreement(RestrictTo(files, Retained(files, c)))
                IN  /\ only.status = "ok"
                    /\ only.category_scores[c] = agreement.category_scores[c]
                    /\ only.raw_agreement_scores[c] = agreement.raw_agreement_scores[c]
                    /\ DOMAIN only.confusion_matrices = DOMAIN agreement.confusion_matrices
                    /\ c \in DOMAIN agreement.confusion_matrices =>
                          only.confusion_matrices[c] = agreement.confusion_matrices[c]

(***************************************************************************)
(* C4.  For every category with at least one retained row, the raw agreement *)
(* is the number of unanimous retained rows divided by the number of         *)
(* retained rows (to 4 decimals); it lies in [0,1] and is 1.0 iff every      *)
(* retained row is unanimous.                                                *)
(***************************************************************************)
C4_RawAgreementFraction ==
    AgreementDone =>
        \A c \in Categories :
            Retained(files, c) # {} =>
                LET raw == agreement.raw_agreement_scores[c]
                IN  /\ IsNum(raw)
                    /\ IsRounded(raw.v, Cardinality(UnanimousRetained(files, c)),
                                 Cardinality(Retained(files, c)))
                    /\ 0 <= raw.v /\ raw.v <= Scale
                    /\ raw.v = Scale <=> UnanimousRetained(files, c) = Retained(files, c)

(***************************************************************************)
(* C5.  For every category with a confusion matrix, the four cells add up to *)
(* total_items, which is the number of retained rows of the category.        *)
(***************************************************************************)
HasMatrix(c) ==
    /\ AgreementDone
    /\ c \in DOMAIN agreement.confusion_matrices
    /\ agreement.confusion_matrices[c].kind = "matrix"

CellSum(m) ==
    m.positive_positive + m.positive_negative + m.negative_positive + m.negative_negative

C5_ConfusionCellsSumToRetained ==
    \A c \in Categories :
        HasMatrix(c) =>
            /\ CellSum(agreement.confusion_matrices[c])
                  = agreement.confusion_matrices[c].total_items
            /\ agreement.confusion_matrices[c].total_items
                  = Cardinality(Retained(files, c))

(***************************************************************************)
(* C6.  A confusion matrix is produced only when the reviewer count is       *)
(* exactly 2; for any other reviewer count the confusion_matrices mapping of *)
(* the result is empty.                                                      *)
(***************************************************************************)
C6_ConfusionOnlyForTwoReviewers ==
    AgreementDone =>
        /\ agreement.n_annotators = Cardinality(ReviewersOf(files))
        /\ agreement.n_annotators # 2 => DOMAIN agreement.confusion_matrices = {}
        /\ (\E c \in Categories : HasMatrix(c)) => Cardinality(ReviewersOf(files)) = 2

C6_Witness ==
    /\ AgreementDone
    /\ Cardinality(ReviewersOf(files)) = 3
    /\ \E c \in Categories : Retained(files, c) # {}
    /\ DOMAIN agreement.confusion_matrices = {}

(***************************************************************************)
(* C7.  The statistic is chosen from the reviewer count alone: two reviewers *)
(* give kappa_type "Cohen's Kappa" and every category the two-rater score;   *)
(* three or more give "Fleiss' Kappa" and every category the multi-rater     *)
(* score; the two are never mixed across the categories of one run.          *)
(***************************************************************************)
C7_StatisticChosenByReviewerCount ==
    AgreementDone =>
        LET n == Cardinality(ReviewersOf(files))
            df == extract_annotations(files)
        IN  /\ n >= 2
            /\ n = 2 =>
                  /\ agreement.kappa_type = "Cohen's Kappa"
                  /\ \A c \in Categories :
                        agreement.category_scores[c] = CohenCategory(df, c)
            /\ n >= 3 =>
                  /\ agreement.kappa_type = "Fleiss' Kappa"
                  /\ \A c \in Categories :
                        agreement.category_scores[c] = FleissCategory(df, c)

\* Three reviewers, and a category whose two statistics differ.
C7_Witness ==
    /\ AgreementDone
    /\ Cardinality(ReviewersOf(files)) = 3
    /\ agreement.kappa_type = "Fleiss' Kappa"
    /\ \E c \in Categories :
          /\ IsNum(agreement.category_scores[c])
          /\ agreement.category_scores[c] # CohenCategory(extract_annotations(files), c)

(***************************************************************************)
(* C8.  With fewer than two reviewers both the agreement run and the         *)
(* evaluation run fail with an error and return no result structure.         *)
(***************************************************************************)
C8_FewerThanTwoReviewersFail ==
    Len(files) < 2 => (~AgreementDone /\ ~EvaluationDone)

(***************************************************************************)
(* C9.  overall_kappa is the arithmetic mean, rounded to 4 decimals, of      *)
(* exactly the entries of category_scores that are not null, and it is null  *)
(* when every entry is null.  (The mean of entries of which one is NaN is    *)
(* NaN.)                                                                     *)
(***************************************************************************)
NonNull(scores) == {c \in Categories : ~IsNone(scores[c])}

SumOfScores(scores, cats) ==
    SumSeq([k \in 1..Len(feedback_categories) |->
               IF feedback_categories[k] \in cats THEN scores[feedback_categories[k]].v ELSE 0])

IsMeanOver(overall, scores, cats) ==
    IF cats = {} THEN IsNone(overall)
    ELSE IF \E c \in cats : scores[c].kind = "nan" THEN overall.kind = "nan"
    ELSE /\ IsNum(overall)
         /\ IsRounded(overall.v, SumOfScores(scores, cats), Cardinality(cats) * Scale)

C9_OverallIsMeanOfNonNull ==
    AgreementDone =>
        IsMeanOver(agreement.overall_kappa, agreement.category_scores,
                   NonNull(agreement.category_scores))

\* A run with a null category and a scored one, whose overall score is a number.
C9_Witness ==
    /\ AgreementDone
    /\ \E c \in Categories : IsNone(agreement.category_scores[c])
    /\ \E c \in Categories : IsNum(agreement.category_scores[c])
    /\ IsNum(agreement.overall_kappa)

(***************************************************************************)
(* C10.  A category without data (zero retained rows) does not contribute to *)
(* overall_kappa: overall_kappa is the mean of the scores of the categories  *)
(* that have at least one retained row.                                      *)
(***************************************************************************)
C10_NoDataCategoryNotInOverall ==
    AgreementDone =>
        IsMeanOver(agreement.overall_kappa, agreement.category_scores,
                   {c \in NonNull(agreement.category_scores) : Retained(files, c) # {}})

(***************************************************************************)
(* C11.  _interpret_kappa maps a null score to Unknown and a number to the   *)
(* one band whose interval holds it, lower bounds inclusive: below 0 Poor,   *)
(* [0, 0.20) Slight, [0.20, 0.40) Fair, [0.40, 0.60) Moderate, [0.60, 0.80)  *)
(* Substantial, [0.80, 1.0] Almost Perfect; and the interpretation of a      *)
(* result is the band of its overall_kappa.  (An overall_kappa that is not a *)
(* number has no interval; C28 is about it.)                                 *)
(***************************************************************************)
BandOf(score) ==
    IF IsNone(score) THEN {"Unknown"}
    ELSE {b \in {"Poor", "Slight", "Fair", "Moderate", "Substantial", "Almost Perfect"} :
            \/ b = "Poor" /\ score.v < 0
            \/ b = "Slight" /\ 0 <= score.v /\ 5 * score.v < Scale
            \/ b = "Fair" /\ Scale <= 5 * score.v /\ 5 * score.v < 2 * Scale
            \/ b = "Moderate" /\ 2 * Scale <= 5 * score.v /\ 5 * score.v < 3 * Scale
            \/ b = "Substantial" /\ 3 * Scale <= 5 * score.v /\ 5 * score.v < 4 * Scale
            \/ b = "Almost Perfect" /\ 4 * Scale <= 5 * score.v /\ score.v <= Scale}

InterpretDone == call.op = "_interpret_kappa" /\ call.out # Pending

C11_InterpretationBands ==
    /\ InterpretDone => BandOf(call.arg) = {call.out.level}
    /\ AgreementDone /\ agreement.overall_kappa.kind # "nan"
          => BandOf(agreement.overall_kappa) = {agreement.interpretation}

\* The lower bound 0.20 itself has been interpreted, and is Fair.
C11_Witness ==
    /\ InterpretDone
    /\ call.arg = Num(2000)
    /\ call.out.level = "Fair"

(***************************************************************************)
(* C12.  A failure while pivoting or computing one category's statistic      *)
(* never aborts the run: category_scores and raw_agreement_scores have an    *)
(* entry for every configured category, the entry of a category that failed  *)
(* is null, and every category's entry is what the run gives when all the    *)
(* other categories are left unrated, so that none of them can fail on its   *)
(* ratings.                                                                  *)
(***************************************************************************)
\* The files with every category other than c unrated.
ProjectTo(fs, c) ==
    [i \in DOMAIN fs |->
        [j \in DOMAIN fs[i] |->
            [fs[i][j] EXCEPT !.feedback =
                [d \in Categories |-> IF d = c THEN fs[i][j].feedback[d] ELSE "null"]]]]

KappaFails(fs, c) ==
    IF agreement.kappa_type = "Cohen's Kappa"
    THEN CohenFails(extract_annotations(fs), c)
    ELSE FleissFails(extract_annotations(fs), c)

KappaAlone(fs, c) ==
    IF agreement.kappa_type = "Cohen's Kappa"
    THEN CohenCategory(extract_annotations(ProjectTo(fs, c)), c)
    ELSE FleissCategory(extract_annotations(ProjectTo(fs, c)), c)

C12_CategoryFailureIsolated ==
    AgreementDone =>
        /\ DOMAIN agreement.category_scores = Categories
        /\ DOMAIN agreement.raw_agreement_scores = Categories
        /\ \A c \in Categories :
              /\ KappaFails(files, c) => IsNone(agreement.category_scores[c])
              /\ RawFails(extract_annotations(files), c)
                    => IsNone(agreement.raw_agreement_scores[c])
              /\ agreement.category_scores[c] = KappaAlone(files, c)
              /\ agreement.raw_agreement_scores[c]
                    = RawCategory(extract_annotations(ProjectTo(files, c)), c)

\* One category's statistic failed and its entry is null, while another
\* category of the same run has a computed score.
C12_Witness ==
    /\ AgreementDone
    /\ agreement.kappa_type = "Cohen's Kappa"
    /\ KappaFails(files, "theme")
    /\ IsNone(agreement.category_scores["theme"])
    /\ ~KappaFails(files, "objects")
    /\ agreement.category_scores["objects"] = Num(0)

(***************************************************************************)
(* C13.  For every item and category, build_consensus counts the non-missing *)
(* votes (c votes of 1, w votes of 0) and returns no_data with an empty vote *)
(* list when c + w = 0, correct with confidence c/(c+w) when c > w,          *)
(* incorrect with confidence w/(c+w) when w > c, and uncertain with          *)
(* confidence exactly 0.5 when c = w > 0; the per-item details of the result *)
(* carry that verdict, that confidence rounded to 4 decimals and the votes.  *)
(***************************************************************************)
EvalCategories == Range(eval_feedback_categories)

VoteOf(post, c) ==
    IF post.feedback[c] = "positive" THEN 1
    ELSE IF post.feedback[c] = "negative" THEN 0 ELSE -1

\* The non-missing votes on item p in category c, in the order of the files
\* and of their listings.
VotesOn(fs, p, c) ==
    LET entries == Flatten([i \in 1..Len(fs) |->
                              SelectSeq(fs[i], LAMBDA post : post.postId = p)])
    IN  SelectSeq([k \in 1..Len(entries) |-> VoteOf(entries[k], c)], LAMBDA v : v # -1)

CountOf(votes, x) == Cardinality({k \in DOMAIN votes : votes[k] = x})

DetailOf(c, p) ==
    LET details == evaluation.category_results[c].consensus_details
    IN  details[CHOOSE k \in DOMAIN details : details[k].postId = p]

C13_ConsensusByMajority ==
    EvaluationDone =>
        \A c \in EvalCategories, p \in AllItemsOf(files) :
            LET votes == VotesOn(files, p, c)
                cv == CountOf(votes, 1)
                wv == CountOf(votes, 0)
                r == build_consensus(extract_evaluations(files), c, p)
                d == DetailOf(c, p)
            IN  /\ r.votes = votes
                /\ cv + wv = 0 => r.consensus = "no_data" /\ r.votes = <<>>
                /\ cv > wv => r.consensus = "correct" /\ r.num * (cv + wv) = cv * r.den
                /\ wv > cv => r.consensus = "incorrect" /\ r.num * (cv + wv) = wv * r.den
                /\ cv = wv /\ cv > 0 => r.consensus = "uncertain" /\ 2 * r.num = r.den
                /\ Cardinality({k \in DOMAIN evaluation.category_results[c].consensus_details :
                        evaluation.category_results[c].consensus_details[k].postId = p}) = 1
                /\ d.consensus = r.consensus
                /\ d.votes = votes
                /\ IsRounded(d.confidence, r.num, r.den)

\* The votes [1, 1, 0] on an item have given correct with 2/3.
C13_Witness ==
    /\ EvaluationDone
    /\ VotesOn(files, 1, "theme") = <<1, 1, 0>>
    /\ DetailOf("theme", 1).consensus = "correct"
    /\ DetailOf("theme", 1).confidence = 6667

(***************************************************************************)
(* C14.  For every category, the counts correct and incorrect are the        *)
(* numbers of items whose consensus verdict is correct resp. incorrect,      *)
(* accuracy = correct / (correct + incorrect) and error_rate = incorrect /   *)
(* (correct + incorrect) (to 4 decimals): uncertain and no_data items are in *)
(* neither denominator; both values are 0 when correct + incorrect = 0.      *)
(***************************************************************************)
VerdictOf(fs, p, c) ==
    LET cv == CountOf(VotesOn(fs, p, c), 1)
        wv == CountOf(VotesOn(fs, p, c), 0)
    IN  IF cv + wv = 0 THEN "no_data"
        ELSE IF cv > wv THEN "correct"
        ELSE IF wv > cv THEN "incorrect" ELSE "uncertain"

ItemsWith(fs, c, verdict) == {p \in AllItemsOf(fs) : VerdictOf(fs, p, c) = verdict}

C14_AccuracyOverDecisiveItems ==
    EvaluationDone =>
        \A c \in EvalCategories :
            LET res == evaluation.category_results[c]
                nc == Cardinality(ItemsWith(files, c, "correct"))
                ni == Cardinality(ItemsWith(files, c, "incorrect"))
            IN  /\ res.correct = nc
                /\ res.incorrect = ni
                /\ nc + ni = 0 => res.accuracy = 0 /\ res.error_rate = 0
                /\ nc + ni > 0 => /\ IsRounded(res.accuracy, nc, nc + ni)
                                  /\ IsRounded(res.error_rate, ni, nc + ni)

\* A category with one correct and one uncertain item has accuracy 1.
C14_Witness ==
    /\ EvaluationDone
    /\ evaluation.n_annotators = 2
    /\ ItemsWith(files, "theme", "correct") = {1}
    /\ ItemsWith(files, "theme", "uncertain") = {2}
    /\ evaluation.category_results["theme"].accuracy = Scale
    /\ evaluation.category_results["theme"].error_rate = 0

(***************************************************************************)
(* C15.  The overall metrics are sums over the categories: total_correct,    *)
(* total_incorrect and total_uncertain are the sums of the categories'       *)
(* counts, and overall_accuracy = total_correct / (total_correct +           *)
(* total_incorrect) (to 4 decimals), which is not the mean of the            *)
(* categories' accuracies.                                                   *)
(***************************************************************************)
SumOver(cats, f(_)) == SumSeq([k \in 1..Len(cats) |-> f(cats[k])])

C15_OverallMetricsAreSums ==
    EvaluationDone =>
        LET om == evaluation.overall_metrics
            cr == evaluation.category_results
            tc == SumOver(eval_feedback_categories, LAMBDA c : cr[c].correct)
            ti == SumOver(eval_feedback_categories, LAMBDA c : cr[c].incorrect)
            tu == SumOver(eval_feedback_categories, LAMBDA c : cr[c].uncertain)
        IN  /\ om.total_correct = tc
            /\ om.total_incorrect = ti
            /\ om.total_uncertain = tu
            /\ tc + ti > 0 => IsRounded(om.overall_accuracy, tc, tc + ti)

\* Two correct items in one category and one incorrect item in another:
\* the overall accuracy is 2/3, the mean of the two accuracies is 1/2.
C15_Witness ==
    /\ EvaluationDone
    /\ evaluation.n_annotators = 2
    /\ evaluation.category_results["theme"].correct = 2
    /\ evaluation.category_results["theme"].accuracy = Scale
    /\ evaluation.category_results["objects"].incorrect = 1
    /\ evaluation.category_results["objects"].total_evaluated = 1
    /\ evaluation.category_results["objects"].accuracy = 0
    /\ evaluation.overall_metrics.overall_accuracy = 6667

(***************************************************************************)
(* C16.  identify_problem_posts lists an item if and only if it has at least *)
(* one decisive category (verdict correct or incorrect) and its incorrect    *)
(* categories are strictly more than half of its decisive ones; the entry    *)
(* carries errors (incorrect count), total (decisive count) and error_rate = *)
(* errors / total rounded to 4 decimals.                                     *)
(***************************************************************************)
ProblemsDone == call.op = "identify_problem_posts"

ErrorsOf(fs, p) == Cardinality({c \in EvalCategories : VerdictOf(fs, p, c) = "incorrect"})

DecisiveOf(fs, p) ==
    Cardinality({c \in EvalCategories : VerdictOf(fs, p, c) \in {"correct", "incorrect"}})

C16_ProblemPostsListed ==
    ProblemsDone =>
        /\ \A p \in AllItemsOf(files) :
              (\E k \in DOMAIN call.out : call.out[k].postId = p)
                 <=> (DecisiveOf(files, p) > 0 /\ 2 * ErrorsOf(files, p) > DecisiveOf(files, p))
        /\ \A k \in DOMAIN call.out :
              /\ call.out[k].postId \in AllItemsOf(files)
              /\ call.out[k].errors = ErrorsOf(files, call.out[k].postId)
              /\ call.out[k].total = DecisiveOf(files, call.out[k].postId)
              /\ IsRounded(call.out[k].error_rate, call.out[k].errors, call.out[k].total)
        /\ \A k, l \in DOMAIN call.out : call.out[k].postId = call.out[l].postId => k = l

\* An item wrong in 2 of its 3 decided categories is listed with errors = 2,
\* total = 3 and error_rate = 0.6667.
C16_Witness ==
    /\ ProblemsDone
    /\ ErrorsOf(files, 1) = 2
    /\ DecisiveOf(files, 1) = 3
    /\ \E k \in DOMAIN call.out :
          call.out[k] = [postId |-> 1, errors |-> 2, total |-> 3, error_rate |-> 6667]

(***************************************************************************)
(* C17.  The list of identify_problem_posts is ordered by error ratio,       *)
(* highest first, and two items of equal ratio appear in the order in which  *)
(* the items are first met in the input.                                     *)
(***************************************************************************)
\* The items in the order in which the files, read in order, first list them.
EncounterOrder(fs) ==
    UniqueSeq(Flatten([i \in 1..Len(fs) |-> [j \in 1..Len(fs[i]) |-> fs[i][j].postId]]))

FirstMet(fs, p) == CHOOSE k \in DOMAIN EncounterOrder(fs) : EncounterOrder(fs)[k] = p

C17_ProblemPostsOrdered ==
    ProblemsDone =>
        \A k, l \in DOMAIN call.out :
            k < l =>
                LET a == call.out[k]
                    b == call.out[l]
                IN  /\ a.errors * b.total >= b.errors * a.total
                    /\ a.errors * b.total = b.errors * a.total
                          => FirstMet(files, a.postId) < FirstMet(files, b.postId)

\* Two listed items of equal ratio, the one with the larger id met first.
C17_Witness ==
    /\ ProblemsDone
    /\ Len(call.out) = 2
    /\ call.out[1].postId = 2
    /\ call.out[2].postId = 1
    /\ call.out[1].error_rate = 6667
    /\ call.out[2].error_rate = 6667
    /\ EncounterOrder(files) = <<2, 1>>

(***************************************************************************)
(* C18.  In both extractors, every record produced from the k-th source (k   *)
(* counted from 1 in the order of the list passed in) carries reviewer       *)
(* identity k, whatever identifier the source itself contains: the table is  *)
(* the sources' records in the order of the list, source by source and item  *)
(* by item, nothing reordered and nothing dropped as a repetition.           *)
(***************************************************************************)
ExtractDone ==
    /\ call.op \in {"extract_annotations", "extract_evaluations"}
    /\ call.out # Pending

ExtractOk == ExtractDone /\ call.out.status = "ok"

CategoriesOfCall ==
    IF call.op = "extract_annotations" THEN feedback_categories ELSE eval_feedback_categories

\* The items a source lists (none when it has no item container).
ItemsOfSource(src) == IF src.hasPosts THEN src.posts ELSE <<>>

\* The number of records due to the first k sources.
RecordsUpTo(srcs, k) ==
    SumSeq([i \in 1..k |-> Len(ItemsOfSource(srcs[i])) * Len(CategoriesOfCall)])

\* The record of the m-th category of the j-th item of the k-th source.
RecordAt(k, j, m) ==
    call.out.table[RecordsUpTo(call.arg, k - 1) + (j - 1) * Len(CategoriesOfCall) + m]

C18_ReviewerIsPositionInList ==
    ExtractOk =>
        /\ Len(call.out.table) = RecordsUpTo(call.arg, Len(call.arg))
        /\ \A k \in DOMAIN call.arg :
              \A j \in DOMAIN ItemsOfSource(call.arg[k]), m \in DOMAIN CategoriesOfCall :
                  /\ RecordAt(k, j, m).annotator = k
                  /\ RecordAt(k, j, m).postId = ItemsOfSource(call.arg[k])[j].postId
                  /\ RecordAt(k, j, m).category = CategoriesOfCall[m]

\* Two identical sources, both naming reviewer 2, have given the records of
\* reviewer 1 and of reviewer 2.
C18_Witness ==
    /\ ExtractOk
    /\ Len(call.arg) = 2
    /\ call.arg[1] = call.arg[2]
    /\ call.arg[1].reviewer = 2
    /\ Len(call.arg[1].posts) = 1
    /\ {call.out.table[n].annotator : n \in DOMAIN call.out.table} = {1, 2}

(***************************************************************************)
(* C19.  In both extractors, the numeric rating of a record is 1 exactly     *)
(* when the item's feedback value for the category is "positive", 0 exactly  *)
(* when it is "negative", and the missing sentinel -1 in every other case    *)
(* (feedback object absent, category key absent, null, any other value): an  *)
(* absent category is never recorded as 0.                                   *)
(***************************************************************************)
HasValue(post, c, v) ==
    /\ "feedback" \in DOMAIN post
    /\ c \in DOMAIN post.feedback
    /\ post.feedback[c] = v

C19_RatingFromFeedbackValue ==
    ExtractOk =>
        \A k \in DOMAIN call.arg :
            \A j \in DOMAIN ItemsOfSource(call.arg[k]), m \in DOMAIN CategoriesOfCall :
                LET post == ItemsOfSource(call.arg[k])[j]
                    rating == RecordAt(k, j, m).rating
                IN  /\ rating \in {1, 0, -1}
                    /\ rating = 1 <=> HasValue(post, CategoriesOfCall[m], "positive")
                    /\ rating = 0 <=> HasValue(post, CategoriesOfCall[m], "negative")

\* An item without a feedback object and an item rated negative: the first
\* has -1 in the category, the second 0.
C19_Witness ==
    /\ ExtractOk
    /\ call.op = "extract_evaluations"
    /\ Len(call.arg) = 2
    /\ call.arg[1].posts = <<[postId |-> 1]>>
    /\ call.arg[2].hasPosts
    /\ Len(call.arg[2].posts) = 1
    /\ HasValue(call.arg[2].posts[1], "theme", "negative")
    /\ RecordAt(1, 1, 1).category = "theme"
    /\ RecordAt(1, 1, 1).rating = -1
    /\ RecordAt(2, 1, 1).rating = 0

(***************************************************************************)
(* C20.  Extraction fails with an error, producing no table, whenever any    *)
(* source is not well-formed or is a well-formed document without the item   *)
(* container 'posts': such a source is never accepted as a reviewer with     *)
(* zero items.                                                               *)
(***************************************************************************)
C20_BadSourceFailsExtraction ==
    ExtractDone /\ (\E i \in DOMAIN call.arg :
                        ~call.arg[i].wellformed \/ ~call.arg[i].hasPosts)
        => call.out.status = "error"

(***************************************************************************)
(* C21.  In extract_evaluations, for every category, a prediction field that *)
(* holds a list is recorded as the list's first element only (unavailable    *)
(* for an empty list), and a scalar prediction is recorded unchanged.        *)
(***************************************************************************)
FieldOf(post, c) ==
    IF "llm" \in DOMAIN post /\ field_name_map(c) \in DOMAIN post.llm
    THEN post.llm[field_name_map(c)]
    ELSE NoPrediction

C21_ListPredictionFirstElement ==
    ExtractOk /\ call.op = "extract_evaluations" =>
        \A k \in DOMAIN call.arg :
            \A j \in DOMAIN ItemsOfSource(call.arg[k]), m \in DOMAIN CategoriesOfCall :
                LET field == FieldOf(ItemsOfSource(call.arg[k])[j], CategoriesOfCall[m])
                    rec == RecordAt(k, j, m).ai_prediction
                IN  /\ field.kind = "list" /\ field.items # <<>>
                          => rec = Scalar(field.items[1])
                    /\ field.kind = "list" /\ field.items = <<>> => rec = NoPrediction
                    /\ field.kind = "scalar" => rec = field

(***************************************************************************)
(* C22.  The flattened table holds at most one record for any (item id,      *)
(* reviewer id, category), also when a file lists an item twice; hence no    *)
(* reviewer contributes more than one vote to an item's consensus for a      *)
(* category.                                                                 *)
(***************************************************************************)
OneRecordPerKey(df) ==
    \A i, j \in DOMAIN df :
        /\ df[i].postId = df[j].postId
        /\ df[i].annotator = df[j].annotator
        /\ df[i].category = df[j].category
        => i = j

C22_AtMostOneRecordPerKey ==
    EvaluationDone =>
        /\ OneRecordPerKey(extract_annotations(files))
        /\ OneRecordPerKey(extract_evaluations(files))
        /\ \A c \in EvalCategories :
              \A k \in DOMAIN evaluation.category_results[c].consensus_details :
                  Len(evaluation.category_results[c].consensus_details[k].votes)
                      <= evaluation.n_annotators

(***************************************************************************)
(* C23.  Exporting an agreement result and parsing the written document back *)
(* yields, for every category, the same score: null stays null and a number  *)
(* comes back equal to 4-decimal precision, for every result that            *)
(* calculate_agreement can return.                                           *)
(***************************************************************************)
SameScore(a, b) ==
    \/ IsNone(a) /\ IsNone(b)
    \/ IsNum(a) /\ IsNum(b) /\ a.v = b.v

C23_ExportRoundTrip ==
    call.op = "parsed" =>
        /\ call.out.status = "ok"
        /\ \A c \in Categories :
              SameScore(agreement.category_scores[c], call.out.data.category_scores[c])

(***************************************************************************)
(* C24.  With two reviewers, calculate_agreement on the two files in swapped *)
(* order gives the same category scores, the same raw agreements and the     *)
(* same cells positive_positive and negative_negative, and exchanges         *)
(* positive_negative with negative_positive and annotator_1_positive_rate    *)
(* with annotator_2_positive_rate.                                           *)
(***************************************************************************)
SwappedRun == calculate_agreement(<<files[2], files[1]>>)

TwoReviewerRun == AgreementDone /\ Len(files) = 2 /\ agreement.n_annotators = 2

MatrixSwapped(m, n) ==
    IF IsNone(m) \/ IsNone(n) THEN m = n
    ELSE /\ n.positive_positive = m.positive_positive
         /\ n.negative_negative = m.negative_negative
         /\ n.positive_negative = m.negative_positive
         /\ n.negative_positive = m.positive_negative
         /\ n.total_items = m.total_items
         /\ n.annotator_1_positive_rate = m.annotator_2_positive_rate
         /\ n.annotator_2_positive_rate = m.annotator_1_positive_rate

C24_SwapExchangesOffDiagonal ==
    TwoReviewerRun =>
        LET swapped == SwappedRun
        IN  /\ swapped.status = "ok"
            /\ swapped.category_scores = agreement.category_scores
            /\ swapped.raw_agreement_scores = agreement.raw_agreement_scores
            /\ \A c \in Categories :
                  MatrixSwapped(agreement.confusion_matrices[c], swapped.confusion_matrices[c])

\* A run whose theme matrix has the one disagreement in positive_negative;
\* the swapped run has it in negative_positive.
C24_Witness ==
    /\ TwoReviewerRun
    /\ ~IsNone(agreement.confusion_matrices["theme"])
    /\ agreement.confusion_matrices["theme"].positive_negative = 1
    /\ agreement.confusion_matrices["theme"].negative_positive = 0
    /\ agreement.confusion_matrices["theme"].annotator_1_positive_rate = Scale
    /\ agreement.confusion_matrices["theme"].annotator_2_positive_rate = 5000
    /\ SwappedRun.confusion_matrices["theme"].negative_positive = 1
    /\ SwappedRun.confusion_matrices["theme"].positive_negative = 0

(***************************************************************************)
(* C25.  With two reviewers, each confusion-matrix cell counts the retained  *)
(* rows by the pair (reviewer 1 rating, reviewer 2 rating): positive_positive *)
(* = (1,1), positive_negative = (1,0), negative_positive = (0,1),            *)
(* negative_negative = (0,0), and each reviewer's positive rate is the       *)
(* fraction of retained rows that the reviewer rated 1 (to 4 decimals).      *)
(***************************************************************************)
RetainedWith(fs, c, x, y) ==
    {p \in Retained(fs, c) : RatingOf(fs, 1, p, c) = x /\ RatingOf(fs, 2, p, c) = y}

C25_ConfusionCellsByRatingPair ==
    TwoReviewerRun =>
        \A c \in Categories :
            HasMatrix(c) =>
                LET m == agreement.confusion_matrices[c]
                    n == Cardinality(Retained(files, c))
                    cells(x, y) == Cardinality(RetainedWith(files, c, x, y))
                IN  /\ m.positive_positive = cells(1, 1)
                    /\ m.positive_negative = cells(1, 0)
                    /\ m.negative_positive = cells(0, 1)
                    /\ m.negative_negative = cells(0, 0)
                    /\ n > 0
                    /\ IsRounded(m.annotator_1_positive_rate, cells(1, 1) + cells(1, 0), n)
                    /\ IsRounded(m.annotator_2_positive_rate, cells(1, 1) + cells(0, 1), n)

(***************************************************************************)
(* C26.  With two reviewers whose retained ratings of a category are not     *)
(* identical, the category's score is (po - pe) / (1 - pe) rounded to 4      *)
(* decimals, where po is the fraction of retained rows on which the two      *)
(* ratings are equal and pe = p1 * p2 + (1 - p1) * (1 - p2) with p1, p2 the  *)
(* reviewers' fractions of retained rows rated 1; 1 - pe is never zero.      *)
(* With n retained rows, a equal rows and c1, c2 rows rated 1, the quotient  *)
(* is (a * n - e) / (n * n - e) for e = c1 * c2 + (n - c1) * (n - c2).       *)
(***************************************************************************)
RatedOne(fs, c, i) == {p \in Retained(fs, c) : RatingOf(fs, i, p, c) = 1}

C26_CohenFormula ==
    TwoReviewerRun =>
        \A c \in Categories :
            (Retained(files, c) # UnanimousRetained(files, c)) =>
                LET n == Cardinality(Retained(files, c))
                    a == Cardinality(UnanimousRetained(files, c))
                    c1 == Cardinality(RatedOne(files, c, 1))
                    c2 == Cardinality(RatedOne(files, c, 2))
                    e == c1 * c2 + (n - c1) * (n - c2)
                    score == agreement.category_scores[c]
                IN  /\ n * n - e > 0
                    /\ score.kind = "num"
                    /\ IsRounded(score.v, a * n - e, n * n - e)

(***************************************************************************)
(* C27.  In every category result of the evaluation, correct + incorrect +   *)
(* uncertain + no_data = total_posts, total_evaluated = correct + incorrect, *)
(* and consensus_details holds exactly one verdict per distinct item, so     *)
(* each item is counted in exactly one of the four counters.                 *)
(***************************************************************************)
DetailsWith(c, verdict) ==
    LET details == evaluation.category_results[c].consensus_details
    IN  {k \in DOMAIN details : details[k].consensus = verdict}

C27_CountersPartitionItems ==
    EvaluationDone =>
        \A c \in EvalCategories :
            LET res == evaluation.category_results[c]
                details == res.consensus_details
            IN  /\ res.correct + res.incorrect + res.uncertain + res.no_data = res.total_posts
                /\ res.total_evaluated = res.correct + res.incorrect
                /\ res.total_posts = Cardinality(AllItemsOf(files))
                /\ \A p \in AllItemsOf(files) :
                       Cardinality({k \in DOMAIN details : details[k].postId = p}) = 1
                /\ \A k \in DOMAIN details : details[k].postId \in AllItemsOf(files)
                /\ res.correct = Cardinality(DetailsWith(c, "correct"))
                /\ res.incorrect = Cardinality(DetailsWith(c, "incorrect"))
                /\ res.uncertain = Cardinality(DetailsWith(c, "uncertain"))
                /\ res.no_data = Cardinality(DetailsWith(c, "no_data"))

\* Three reviewers list the same two items: one is correct, the other has no
\* vote, and the category's result has one verdict for each.
C27_Witness ==
    /\ EvaluationDone
    /\ evaluation.n_annotators = 3
    /\ \A i \in DOMAIN files : {files[i][j].postId : j \in DOMAIN files[i]} = {1, 2}
    /\ evaluation.category_results["theme"].correct = 1
    /\ evaluation.category_results["theme"].no_data = 1
    /\ evaluation.category_results["theme"].total_posts = 2
    /\ Len(evaluation.category_results["theme"].consensus_details) = 2

(***************************************************************************)
(* C28.  Every entry of category_scores, and overall_kappa, is null or a     *)
(* defined number in [-1, 1], for every reviewer count: no score is NaN, so  *)
(* no interpretation band is derived from an undefined value.                *)
(***************************************************************************)
DefinedOrNull(score) ==
    \/ score = None
    \/ score.kind = "num" /\ -Scale <= score.v /\ score.v <= Scale

C28_ScoresDefinedOrNull ==
    AgreementDone =>
        /\ \A c \in Categories : DefinedOrNull(agreement.category_scores[c])
        /\ DefinedOrNull(agreement.overall_kappa)

(***************************************************************************)
(* C29.  The reviewer count that calculate_agreement reports as n_annotators *)
(* and uses to choose the statistic and to decide whether confusion matrices *)
(* are produced is the number of input files, also when one of the files has *)
(* an empty item list: two or more files are never refused for having too    *)
(* few reviewers, two files give Cohen's Kappa with confusion matrices, and  *)
(* three or more give Fleiss' Kappa without.                                 *)
(***************************************************************************)
C29_ReviewerCountIsFileCount ==
    /\ (agreement.status # "pending" /\ Len(files) >= 2 /\ AllItemsOf(files) # {}) =>
           AgreementDone
    /\ AgreementDone =>
           /\ agreement.n_annotators = Len(files)
           /\ agreement.kappa_type = KappaMode(Len(files))
           /\ (agreement.confusion_matrices # <<>>) <=> (Len(files) = 2)

(***************************************************************************)
(* The dashboard's Analyze step (app_dashboard.py, main).  The uploads are   *)
(* a list of files, each with a name and a content; files holds the          *)
(* contents and call.arg the names, in upload order.  agreement and          *)
(* evaluation are the entries iaa_results and eval_results of the session    *)
(* state (pending: not set).  temp_uploads starts empty.                     *)
(***************************************************************************)
UploadNames == {"a.json", "b.json"}

UploadContents == FilesOf([posts |-> {1}, rated |-> {"theme"}])

\* temp_dir / uploaded_file.name
TempPath(name) == name

\* The loop that saves the uploads: temp_uploads after it, a map from the
\* paths written to their contents (a later write to a path replaces the
\* earlier one).
SaveUploads(names, contents) ==
    [path \in {TempPath(names[i]) : i \in DOMAIN names} |->
        LET last == CHOOSE i \in DOMAIN names :
                        /\ TempPath(names[i]) = path
                        /\ \A k \in DOMAIN names : TempPath(names[k]) = path => k <= i
        IN  contents[last]]

\* The cleanup loop: Path(file_path).unlink() raises FileNotFoundError at the
\* first path that an earlier iteration has removed; stopped is that
\* position (0: the loop ran to its end), removed the paths unlinked.
Cleanup(file_paths) ==
    LET repeated == {i \in DOMAIN file_paths :
                        \E j \in 1..(i - 1) : file_paths[j] = file_paths[i]}
        stopped == IF repeated = {} THEN 0
                   ELSE CHOOSE i \in repeated : \A k \in repeated : i <= k
        last == IF stopped = 0 THEN Len(file_paths) ELSE stopped - 1
    IN  [stopped |-> stopped, removed |-> {file_paths[j] : j \in 1..last}]

\* The contents the analyses read at the paths handed to them.
ReadUploads(names, contents) ==
    LET temp == SaveUploads(names, contents)
    IN  [i \in DOMAIN names |-> temp[TempPath(names[i])]]

\* The branch `if run_analysis:` and the display that follows it, given the
\* files read at file_paths and the results of the two analyses on them.
RunAnalysis(names, contents, analysed, iaa_results, eval_results) ==
    LET temp == SaveUploads(names, contents)
        file_paths == [i \in DOMAIN names |-> TempPath(names[i])]
        cleanup == Cleanup(file_paths)
    IN  IF iaa_results.status # "ok"
        THEN [iaa_results |-> Pending, eval_results |-> Pending,
              out |-> [status |-> "done", file_paths |-> file_paths,
                       analysed |-> analysed, temp_files |-> DOMAIN temp,
                       error |-> iaa_results.error, shown |-> FALSE]]
        ELSE IF eval_results.status # "ok"
        THEN [iaa_results |-> Pending, eval_results |-> Pending,
              out |-> [status |-> "done", file_paths |-> file_paths,
                       analysed |-> analysed, temp_files |-> DOMAIN temp,
                       error |-> eval_results.error, shown |-> FALSE]]
        ELSE [iaa_results |-> iaa_results, eval_results |-> eval_results,
              out |-> [status |-> "done", file_paths |-> file_paths,
                       analysed |-> analysed,
                       temp_files |-> DOMAIN temp \ cleanup.removed,
                       error |-> IF cleanup.stopped = 0 THEN "none"
                                 ELSE "FileNotFoundError",
                       shown |-> cleanup.stopped = 0]]

UploadInputs == UNION {[1..n -> UploadContents] : n \in 1..MaxFiles}

InitDashboard ==
    /\ files \in UploadInputs
    /\ call \in {[op |-> "analyze", arg |-> names, out |-> Pending] :
                   names \in [1..Len(files) -> UploadNames]}
    /\ agreement = Pending
    /\ evaluation = Pending

\* The Analyze button is pressed.
Analyze ==
    /\ call.out = Pending
    /\ \E analysed \in {ReadUploads(call.arg, files)} :
          \E iaa_results \in {calculate_agreement(analysed)},
             eval_results \in {evaluate_model(analysed)} :
             \E run \in {RunAnalysis(call.arg, files, analysed, iaa_results, eval_results)} :
                /\ agreement' = run.iaa_results
                /\ evaluation' = run.eval_results
                /\ call' = [call EXCEPT !.out = run.out]
    /\ UNCHANGED files

\* A later run of the script without the button: the results in the session
\* state are displayed.
Rerun ==
    /\ call.out # Pending
    /\ ~call.out.shown
    /\ agreement.status = "ok" /\ evaluation.status = "ok"
    /\ call' = [call EXCEPT !.out.error = "none", !.out.shown = TRUE]
    /\ UNCHANGED <<files, agreement, evaluation>>

NextDashboard == Analyze \/ Rerun

SpecDashboard == InitDashboard /\ [][NextDashboard]_vars

(***************************************************************************)
(* C30.  In the Analyze step the i-th uploaded file is analysed as reviewer  *)
(* i with its own content: the paths handed to the two analyses are pairwise *)
(* distinct, also when two uploads have the same name, and after a completed *)
(* analysis every temporary file has been removed and both results are       *)
(* shown.                                                                    *)
(***************************************************************************)
AnalyzeDone == call.op = "analyze" /\ call.out # Pending

C30_UploadsAnalysedAsUploaded ==
    AnalyzeDone =>
        /\ call.out.analysed = files
        /\ \A i, j \in DOMAIN call.out.file_paths :
               i # j => call.out.file_paths[i] # call.out.file_paths[j]
        /\ (agreement.status = "ok" /\ evaluation.status = "ok") =>
               call.out.temp_files = {} /\ call.out.shown

====
